---- MODULE Spec2Model ----
(***************************************************************************)
(* Model of deepaffects_summary_api.py: the transcript parsers, the        *)
(* request submitter (send_request), the status poller (get_response),     *)
(* the driver loop (process_summary_request) and the command-line block.   *)
(*                                                                         *)
(* Text is modelled as sequences of one-character strings, so that strip,  *)
(* split and rsplit are computed position by position as Python does.      *)
(* Paths, option words and status words are sequences of tokens.           *)
(***************************************************************************)
EXTENDS Integers, Sequences, FiniteSets, TLC

VARIABLES
    pc,               \* position of the running entry point
    disk,             \* content of the transcript file at file_name
    transcript,       \* how the lines of disk were composed (ghost; SpecParse)
    output_segments,  \* value returned by the parser
    file_name,        \* process_summary_request argument
    out_folder,       \* process_summary_request argument
    model,            \* process_summary_request argument / main's local
    request_id,       \* local of process_summary_request
    completed,        \* local of process_summary_request (the loop flag)
    response,         \* local of process_summary_request
    fs,               \* the files of the output folder: path -> content
    before,           \* fs as it was when process_summary_request was called
    written,          \* the writes of this call: path and number of polls so far
    posts,            \* payloads handed to requests.post, in order
    polls,            \* one record per call of requests.get, in order
    raised,           \* exception that left the entry point, or "None"
    retval,           \* value returned by process_summary_request
    run,              \* number of the current call of process_summary_request
    clock,            \* seconds spent in time.sleep
    APIKEY,           \* module constant APIKEY
    argv,             \* sys.argv[1:]
    opts,             \* result of getopt.getopt
    input_file_path,  \* main's local
    output_folder,    \* main's local
    exit_code         \* status passed to exit()/sys.exit(), or "None"

vars == <<pc, disk, transcript, output_segments, file_name, out_folder, model,
          request_id, completed, response, fs, before, written, posts, polls,
          raised, retval, run, clock, APIKEY, argv, opts, input_file_path, output_folder,
          exit_code>>

driverVars == <<file_name, out_folder, model, request_id, completed, response,
                fs, before, written, posts, polls, retval, run, clock>>

mainVars == <<APIKEY, argv, opts, input_file_path, output_folder, exit_code>>

----------------------------------------------------------------------------
(* Python str helpers, on sequences of characters                          *)

None == "None"

WS == {" ", "\n", "\t"}

Sep == <<":", " ">>

SpeakerPrefix == <<"s", "p", "e", "a", "k", "e", "r", "_">>

PrefixLen == 8

RECURSIVE LStrip(_)
LStrip(s) ==
    IF s # <<>> /\ Head(s) \in WS THEN LStrip(Tail(s)) ELSE s

RECURSIVE RStrip(_)
RStrip(s) ==
    IF s # <<>> /\ s[Len(s)] \in WS THEN RStrip(SubSeq(s, 1, Len(s) - 1)) ELSE s

Strip(s) == RStrip(LStrip(s))

StartsWith(s, p) ==
    Len(s) >= Len(p) /\ SubSeq(s, 1, Len(p)) = p

\* positions at which sep occurs in s
Occurrences(s, sep) ==
    {i \in 1..(Len(s) - Len(sep) + 1) : SubSeq(s, i, i + Len(sep) - 1) = sep}

Min(S) == CHOOSE x \in S : \A y \in S : x <= y

Max(S) == CHOOSE x \in S : \A y \in S : x >= y

\* s.split(sep, 1)
Split1(s, sep) ==
    LET occ == Occurrences(s, sep) IN
    IF occ = {} THEN <<s>>
    ELSE LET i == Min(occ) IN
         <<SubSeq(s, 1, i - 1), SubSeq(s, i + Len(sep), Len(s))>>

\* a variant of rsplit that cuts at the first separator, as split does
RSplit1_first(s, sep) ==
    LET occ == Occurrences(s, sep) IN
    IF occ = {} THEN <<s>>
    ELSE LET i == Min(occ) IN
         <<SubSeq(s, 1, i - 1), SubSeq(s, i + Len(sep), Len(s))>>

\* s.rsplit(sep, 1)
RSplit1(s, sep) ==
    LET occ == Occurrences(s, sep) IN
    IF occ = {} THEN <<s>>
    ELSE LET i == Max(occ) IN
         <<SubSeq(s, 1, i - 1), SubSeq(s, i + Len(sep), Len(s))>>

----------------------------------------------------------------------------
(* read_text_to_segments                                                   *)

\* label[label.startswith("speaker_") and 8:]
get_speaker_id(label) ==
    LET l == Strip(label) IN
    IF StartsWith(l, SpeakerPrefix) THEN SubSeq(l, PrefixLen + 1, Len(l)) ELSE l

\* the utterance text kept from the remainder of a line
SegmentText(rest) ==
    LET parts == RSplit1(rest, Sep) IN
    IF Len(parts) >= 1 THEN Strip(parts[Len(parts)]) ELSE <<>>

\* one iteration of the loop over the lines of the file
ParseLine(raw) ==
    LET line == Strip(raw) IN
    IF line = <<>> THEN [kind |-> "skip"]
    ELSE LET parts == Split1(line, Sep) IN
         IF Len(parts) < 2 THEN [kind |-> "IndexError"]
         ELSE [kind |-> "segment",
               seg  |-> [speakerId |-> get_speaker_id(parts[1]),
                         text      |-> SegmentText(parts[2])]]

RECURSIVE ReadLines(_, _)
ReadLines(lines, acc) ==
    IF lines = <<>> THEN [raised |-> None, segments |-> acc]
    ELSE LET r == ParseLine(Head(lines)) IN
         CASE r.kind = "skip"       -> ReadLines(Tail(lines), acc)
           [] r.kind = "IndexError" -> [raised |-> "IndexError", segments |-> <<>>]
           [] OTHER                 -> ReadLines(Tail(lines), Append(acc, r.seg))

read_text_to_segments(lines) == ReadLines(lines, <<>>)

----------------------------------------------------------------------------
(* read_json_to_segments                                                   *)

\* doc: [valid, hasSegments, segments]; json.load raises on an invalid body,
\* ["segments"] and x["speaker_id"] raise KeyError when the key is absent.
read_json_to_segments(doc) ==
    IF ~doc.valid THEN [raised |-> "JSONDecodeError", segments |-> <<>>]
    ELSE IF ~doc.hasSegments THEN [raised |-> "KeyError", segments |-> <<>>]
    ELSE IF \E i \in 1..Len(doc.segments) : "speaker_id" \notin DOMAIN doc.segments[i]
         THEN [raised |-> "KeyError", segments |-> <<>>]
    ELSE [raised   |-> None,
          segments |-> [i \in 1..Len(doc.segments) |->
                          [speaker_id |-> doc.segments[i].speaker_id,
                           text       |-> doc.segments[i].text,
                           speakerId  |-> doc.segments[i].speaker_id]]]

----------------------------------------------------------------------------
(* os.path helpers, on sequences of path tokens                            *)

Slash == "/"

ExtTokens == {".txt", ".json", ".csv"}

OutputSuffix == <<".output.json">>

\* os.path.basename: what follows the last "/"
Basename(p) ==
    LET cuts == {i \in 1..Len(p) : p[i] = Slash} IN
    IF cuts = {} THEN p ELSE SubSeq(p, Max(cuts) + 1, Len(p))

\* os.path.splitext(p)[1]: the last extension of the basename, not a leading dot
SplitExt(p) ==
    LET b == Basename(p) IN
    IF Len(b) >= 2 /\ b[Len(b)] \in ExtTokens THEN b[Len(b)] ELSE ""

\* str.endswith(ext)
EndsWith(p, ext) == p # <<>> /\ p[Len(p)] = ext

\* os.path.join(a, b)
Join(a, b) ==
    IF b # <<>> /\ Head(b) = Slash THEN b
    ELSE IF a = <<>> \/ a[Len(a)] = Slash THEN a \o b
    ELSE a \o <<Slash>> \o b

----------------------------------------------------------------------------
(* Values exchanged with the provider                                      *)

\* a JSON/Python value: t is its type, v identifies it
Str(v) == [t |-> "str", v |-> v]

Dict(v) == [t |-> "dict", v |-> v]

IN_PROGRESS == Str("IN PROGRESS")

FAILED == Str("FAILED")

NoValue == [t |-> "NoneType", v |-> None]

IsDict(x) == x.t = "dict"

\* str.lower(), word by word
Lower(w) ==
    CASE w = "In"        -> "in"
      [] w = "Progress"  -> "progress"
      [] w = "COMPLETED" -> "completed"
      [] w = "Completed" -> "completed"
      [] w = "Errored"   -> "errored"
      [] OTHER           -> w

LowerAll(s) == [i \in 1..Len(s) |-> Lower(s[i])]

\* "word" in status
Contains(s, w) == \E i \in 1..Len(s) : s[i] = w

\* what requests.post can give send_request
PostOutcomes ==
    { [http |-> "ConnectionError", body |-> "none",    request_id |-> None],
      [http |-> "ok",              body |-> "nonjson", request_id |-> None],
      [http |-> "ok",              body |-> "json",    request_id |-> None],
      [http |-> "ok",              body |-> "json",    request_id |-> "r1"] }

GetOk(hasStatus, status, hasResult, result) ==
    [http |-> "ok", body |-> "json", hasStatus |-> hasStatus, status |-> status,
     hasResult |-> hasResult, result |-> result]

\* what requests.get can give get_response
GetOutcomes ==
    { [http |-> "ConnectionError", body |-> "none", hasStatus |-> FALSE,
       status |-> <<>>, hasResult |-> FALSE, result |-> NoValue],
      [http |-> "ok", body |-> "nonjson", hasStatus |-> FALSE,
       status |-> <<>>, hasResult |-> FALSE, result |-> NoValue],
      GetOk(FALSE, <<>>, FALSE, NoValue),
      GetOk(TRUE, <<"In", " ", "Progress">>, FALSE, NoValue),
      GetOk(TRUE, <<"Completed", " ", "In", " ", "Progress">>, TRUE, Dict("d1")),
      GetOk(TRUE, <<"COMPLETED">>, TRUE, Dict("d1")),
      GetOk(TRUE, <<"completed", " ">>, TRUE, Dict("d2")),
      GetOk(TRUE, <<"completed">>, FALSE, NoValue),
      GetOk(TRUE, <<"completed">>, TRUE, Str("summary text")),
      GetOk(TRUE, <<"completed">>, TRUE, FAILED),
      GetOk(TRUE, <<"Errored">>, FALSE, NoValue),
      GetOk(TRUE, <<"errored">>, FALSE, NoValue),
      GetOk(TRUE, <<>>, FALSE, NoValue) }

----------------------------------------------------------------------------
(* send_request                                                            *)

\* the segments read from the file, by the extension of its path
ReadSegments(path, content) ==
    IF content.kind = "missing"
    THEN [raised |-> "FileNotFoundError", segments |-> <<>>]
    ELSE IF SplitExt(path) = ".json" THEN read_json_to_segments(content.doc)
    ELSE read_text_to_segments(content.lines)

Payload(segments, m) ==
    [summaryType |-> "abstractive", summaryData |-> segments, model |-> m]

\* send_request(file_path, model) when requests.post gives outcome o:
\* the request id returned, and the payloads posted
send_request(path, content, m, o) ==
    LET r == ReadSegments(path, content) IN
    IF r.raised # None THEN [request_id |-> None, posted |-> <<>>]
    ELSE IF o.http # "ok" \/ o.body # "json"
         THEN [request_id |-> None, posted |-> <<Payload(r.segments, m)>>]
    ELSE [request_id |-> o.request_id, posted |-> <<Payload(r.segments, m)>>]

----------------------------------------------------------------------------
(* get_response                                                            *)

SleepSeconds == 10

\* a variant of the try block that reports an unexpected status as in progress
Interpret_unknownInProgress(o) ==
    IF o.body # "json" \/ ~o.hasStatus THEN [summary |-> FAILED, slept |-> 0]
    ELSE LET status == Strip(LowerAll(o.status)) IN
         IF Contains(status, "completed") /\ ~Contains(status, "progress")
         THEN IF o.hasResult THEN [summary |-> o.result, slept |-> 0]
              ELSE [summary |-> FAILED, slept |-> 0]
         ELSE [summary |-> IN_PROGRESS, slept |-> SleepSeconds]

\* the try block of get_response, on a response that arrived
Interpret(o) ==
    IF o.body # "json" \/ ~o.hasStatus THEN [summary |-> FAILED, slept |-> 0]
    ELSE LET status == Strip(LowerAll(o.status)) IN
         IF Contains(status, "progress")
         THEN [summary |-> IN_PROGRESS, slept |-> SleepSeconds]
         ELSE IF Contains(status, "completed")
         THEN IF o.hasResult THEN [summary |-> o.result, slept |-> 0]
              ELSE [summary |-> FAILED, slept |-> 0]
         ELSE [summary |-> FAILED, slept |-> 0]

\* get_response(request_id) when requests.get gives outcome o; the call of
\* requests.get is outside the try block
get_response(o) ==
    IF o.http # "ok"
    THEN [raised |-> o.http, summary |-> NoValue, slept |-> 0]
    ELSE [raised |-> None, summary |-> Interpret(o).summary,
          slept |-> Interpret(o).slept]

----------------------------------------------------------------------------
(* Inputs of process_summary_request                                       *)

MaxPolls == 3

MaxRuns == 2

Chars(label, body) == label \o <<" ", ":", " ">> \o body \o <<"\n">>

GoodLines ==
    << Chars(SpeakerPrefix \o <<"0">>, <<"h", "i">>),
       <<"\n">>,
       Chars(SpeakerPrefix \o <<"1">>, <<"0", ":", "1", " ", ":", " ", "o", "k">>) >>

BadLines ==
    << Chars(SpeakerPrefix \o <<"0">>, <<"h", "i">>),
       <<"n", "o", " ", "s", "e", "p", "\n">> >>

TxtFile(lines) ==
    [kind |-> "txt", lines |-> lines,
     doc |-> [valid |-> FALSE, hasSegments |-> FALSE, segments |-> <<>>]]

JsonFile(valid, hasSegments, segments) ==
    [kind |-> "json", lines |-> <<>>,
     doc |-> [valid |-> valid, hasSegments |-> hasSegments, segments |-> segments]]

\* no file at the path: open raises FileNotFoundError
MissingFile ==
    [kind |-> "missing", lines |-> <<>>,
     doc |-> [valid |-> FALSE, hasSegments |-> FALSE, segments |-> <<>>]]

\* a transcript path with the content stored under it; the file name decides
\* the parser, so each path comes with content of its own format
InputFiles ==
    { [path |-> <<"call1", ".txt">>, content |-> TxtFile(GoodLines)],
      [path |-> <<"d", "/", "call2", ".txt">>, content |-> TxtFile(BadLines)],
      [path |-> <<"d", "/", "call3", ".json">>,
       content |-> JsonFile(TRUE, TRUE, <<[speaker_id |-> "0", text |-> "hi"]>>)],
      [path |-> <<"call4", ".json">>, content |-> JsonFile(TRUE, FALSE, <<>>)],
      [path |-> <<"gone", ".txt">>, content |-> MissingFile] }

\* the output folder exists and is not empty (lines 208 and 217 of the CLI)
OutFolders == { <<"/", "tmp", "/", "out">>, <<"out", "/">> }

Models == {"iamus", "cassandra"}

NoFiles == [p \in {} |-> NoValue]

\* a variant of the write that leaves an existing file as it is
WriteFile_keepExisting(files, path, content) ==
    [p \in DOMAIN files \cup {path} |->
        IF p \in DOMAIN files THEN files[p] ELSE content]

\* open(path, 'w') followed by json.dump(content, f)
WriteFile(files, path, content) ==
    [p \in DOMAIN files \cup {path} |-> IF p = path THEN content ELSE files[p]]

----------------------------------------------------------------------------
(* process_summary_request                                                 *)

InitDriver ==
    /\ pc = "call"
    /\ \E f \in InputFiles : file_name = f.path /\ disk = f.content
    /\ out_folder \in OutFolders
    /\ model \in Models
    /\ request_id = None
    /\ completed = FALSE
    /\ response = NoValue
    /\ fs = NoFiles
    /\ before = NoFiles
    /\ written = <<>>
    /\ posts = <<>>
    /\ polls = <<>>
    /\ raised = None
    /\ retval = None
    /\ run = 1
    /\ clock = 0
    /\ transcript = <<>>
    /\ output_segments = <<>>
    /\ APIKEY = <<>>
    /\ argv = <<>>
    /\ opts = <<>>
    /\ input_file_path = None
    /\ output_folder = None
    /\ exit_code = None

\* lines 154-156: request_id = send_request(file_name, model); completed = True
SendRequest ==
    /\ pc = "call"
    /\ \E o \in PostOutcomes :
         LET r == send_request(file_name, disk, model, o) IN
         /\ request_id' = r.request_id
         /\ posts' = posts \o r.posted
    /\ completed' = TRUE
    /\ pc' = "loop"
    /\ UNCHANGED <<disk, transcript, output_segments, file_name, out_folder,
                   model, response, fs, before, written, polls, raised, retval,
                   run, clock>>
    /\ UNCHANGED mainVars

\* lines 158-159: while completed: response = get_response(request_id)
GetResponse ==
    /\ pc = "loop"
    /\ completed
    /\ Len(polls) < MaxPolls
    /\ \E o \in GetOutcomes :
         LET r == get_response(o) IN
         /\ polls' = Append(polls, [request_id |-> request_id, outcome |-> o])
         /\ clock' = clock + r.slept
         /\ IF r.raised # None
            THEN /\ raised' = r.raised
                 /\ pc' = "raised"
                 /\ UNCHANGED response
            ELSE /\ response' = r.summary
                 /\ pc' = "handle"
                 /\ UNCHANGED raised
    /\ UNCHANGED <<disk, transcript, output_segments, file_name, out_folder,
                   model, request_id, completed, fs, before, written, posts,
                   retval, run>>
    /\ UNCHANGED mainVars

\* the name of the output file, line 161
OutFilename(folder, name) == Join(folder, Basename(name) \o OutputSuffix)

\* a variant of the loop body that clears the flag on FAILED alone
EndsLoop_failedOnly(resp) == resp = FAILED

\* whether the loop body ends the loop, lines 160-170
EndsLoop(resp) == IsDict(resp) \/ resp = FAILED

\* lines 160-170: the body of the loop after get_response returned
HandleResponse ==
    /\ pc = "handle"
    /\ IF IsDict(response)
       THEN /\ fs' = WriteFile(fs, OutFilename(out_folder, file_name),
                               [response |-> response])
            /\ written' = Append(written,
                                 [path  |-> OutFilename(out_folder, file_name),
                                  after |-> Len(polls)])
       ELSE UNCHANGED <<fs, written>>
    /\ completed' = ~EndsLoop(response)
    /\ pc' = "loop"
    /\ UNCHANGED <<disk, transcript, output_segments, file_name, out_folder,
                   model, request_id, response, before, posts, polls, raised,
                   retval, run, clock>>
    /\ UNCHANGED mainVars

\* line 158 with completed false: the function returns (None)
Return ==
    /\ pc = "loop"
    /\ ~completed
    /\ retval' = None
    /\ pc' = "done"
    /\ UNCHANGED <<disk, transcript, output_segments, file_name, out_folder,
                   model, request_id, completed, response, fs, before, written,
                   posts, polls, raised, run, clock>>
    /\ UNCHANGED mainVars

\* process_summary_request is called again on the same input and output folder
Rerun ==
    /\ pc \in {"done", "raised"}
    /\ run < MaxRuns
    /\ run' = run + 1
    /\ pc' = "call"
    /\ request_id' = None
    /\ completed' = FALSE
    /\ response' = NoValue
    /\ posts' = <<>>
    /\ polls' = <<>>
    /\ raised' = None
    /\ retval' = None
    /\ clock' = 0
    /\ before' = fs
    /\ written' = <<>>
    /\ UNCHANGED <<disk, transcript, output_segments, file_name, out_folder,
                   model, fs>>
    /\ UNCHANGED mainVars

Next == SendRequest \/ GetResponse \/ HandleResponse \/ Return \/ Rerun

Spec == InitDriver /\ [][Next]_vars

----------------------------------------------------------------------------
(* Properties of process_summary_request, checked under Spec               *)

LastOutcome == polls[Len(polls)].outcome

Answered(o) == o.http = "ok" /\ o.body = "json" /\ o.hasStatus

HasWord(o, w) == \E i \in 1..Len(o.status) : Lower(o.status[i]) = w

\* a status response of the provider that says the job is in progress
InProgressResponse(o) == Answered(o) /\ HasWord(o, "progress")

\* a status response that says the job is completed
CompletedResponse(o) ==
    Answered(o) /\ HasWord(o, "completed") /\ ~HasWord(o, "progress")

\* a completed response carrying a result object
CompletedWithObject(o) ==
    CompletedResponse(o) /\ o.hasResult /\ o.result.t = "dict"

\* a status response with neither word
OtherResponse(o) ==
    Answered(o) /\ ~HasWord(o, "completed") /\ ~HasWord(o, "progress")

\* the body of the loop has handled the last poll
Handled == pc \in {"loop", "done"} /\ polls # <<>>

\* C1: when send_request returns a null request id, the driver issues no
\* status poll for it and writes no output file.
C1_NullIdStopsTheRun ==
    (pc # "call" /\ request_id = None) => (polls = <<>> /\ written = <<>>)

\* C2: get_response never raises; a failing GET, an unparsable or incomplete
\* response and a status with neither "progress" nor "completed" all make it
\* return "FAILED".
C2_PollerNeverRaises ==
    (polls # <<>> /\ pc \in {"handle", "raised"}) =>
        /\ pc = "handle"
        /\ (~Answered(LastOutcome) \/ OtherResponse(LastOutcome)
            \/ (CompletedResponse(LastOutcome) /\ ~LastOutcome.hasResult))
           => response = FAILED

\* C3: a .txt transcript with a non-blank line without ": " makes the parse
\* error leave the run: nothing is submitted, polled or written.
C3_ParseErrorAbortsTheRun ==
    (disk = TxtFile(BadLines) /\ pc # "call") =>
        /\ pc = "raised"
        /\ raised = "IndexError"
        /\ posts = <<>>
        /\ polls = <<>>
        /\ written = <<>>

\* the polls so far are n in-progress responses and then a completed response
\* with a result object
ProgressThenCompleted ==
    /\ polls # <<>>
    /\ \A i \in 1..(Len(polls) - 1) : InProgressResponse(polls[i].outcome)
    /\ CompletedWithObject(LastOutcome)

AllInProgress == \A i \in 1..Len(polls) : InProgressResponse(polls[i].outcome)

\* C4: on n in-progress responses followed by a completed response with a
\* result object the driver polls n+1 times, writes one file, writes it only
\* after the completed response, and does not poll after the write.
C4_WritesOnceAfterCompleted ==
    /\ ProgressThenCompleted =>
          /\ pc \in {"handle", "loop", "done"}
          /\ pc = "handle" => (written = <<>> /\ completed)
          /\ pc \in {"loop", "done"} =>
                /\ Len(written) = 1
                /\ written[1].after = Len(polls)
                /\ ~completed
    /\ (AllInProgress /\ pc # "call") =>
          /\ written = <<>>
          /\ pc \in {"handle", "loop"}
          /\ completed
    /\ written # <<>> => written[Len(written)].after = Len(polls)

C4_Witness ==
    /\ pc = "done"
    /\ Len(polls) = 3
    /\ ProgressThenCompleted
    /\ Len(written) = 1
    /\ request_id = "r1"

\* C5 as stated: a status with "completed", or with neither word, ends the
\* loop after that poll, the first in WRITTEN and the second in FAILED, and
\* the loop goes on only while the status contains "progress".
C5_TerminalStatusEndsLoop ==
    (Handled /\ pc = "loop" /\ Answered(LastOutcome)) =>
        /\ CompletedResponse(LastOutcome) => (~completed /\ Len(written) = 1)
        /\ OtherResponse(LastOutcome) => (~completed /\ written = <<>>)
        /\ completed => HasWord(LastOutcome, "progress")

\* C5 as amended: after a poll whose status contains "progress" the loop goes
\* on; after one with "completed" and not "progress" it ends in WRITTEN when
\* response.response is an object, in FAILED when it is absent or the string
\* "FAILED", and goes on when it is any other value; after a status with
\* neither word it ends in FAILED.
C5_LoopEndsOnObjectOrFailed ==
    (Handled /\ pc = "loop" /\ Answered(LastOutcome)) =>
        LET o == LastOutcome IN
        /\ InProgressResponse(o) => (completed /\ written = <<>>)
        /\ CompletedWithObject(o) => (~completed /\ Len(written) = 1)
        /\ (CompletedResponse(o) /\ (~o.hasResult \/ o.result = FAILED))
              => (~completed /\ written = <<>>)
        /\ (CompletedResponse(o) /\ o.hasResult /\ o.result.t # "dict"
              /\ o.result # FAILED) => (completed /\ written = <<>>)
        /\ OtherResponse(o) => (~completed /\ written = <<>>)

C5_Witness ==
    /\ pc = "loop"
    /\ Len(polls) = 2
    /\ InProgressResponse(polls[1].outcome)
    /\ CompletedResponse(LastOutcome)
    /\ ~LastOutcome.hasResult
    /\ ~completed
    /\ written = <<>>

\* the last status polled was "errored", in any case of letters
ErroredRun ==
    /\ request_id # None
    /\ polls # <<>>
    /\ Answered(LastOutcome)
    /\ LowerAll(LastOutcome.status) = <<"errored">>

\* C6: after a status such as "errored" the driver ends without writing and
\* its caller can tell the outcome from a written run, which returns None
\* and raises nothing.
C6_ErroredSignalsFailure ==
    (ErroredRun /\ pc \in {"done", "raised"}) =>
        /\ written = <<>>
        /\ (retval # None \/ raised # None)

\* the path with repeated separators dropped
RECURSIVE Collapse(_)
Collapse(p) ==
    IF Len(p) < 2 THEN p
    ELSE IF p[1] = Slash /\ p[2] = Slash THEN Collapse(Tail(p))
    ELSE <<p[1]>> \o Collapse(Tail(p))

\* the last component of a path: its longest suffix without a separator
LastComponent(p) ==
    CHOOSE b \in {SubSeq(p, k, Len(p)) : k \in 1..(Len(p) + 1)} :
        /\ \A i \in 1..Len(b) : b[i] # Slash
        /\ (Len(b) = Len(p) \/ p[Len(p) - Len(b)] = Slash)

\* <out_folder>/<basename(input file)>.output.json
DocumentedPath ==
    Collapse(out_folder \o <<Slash>> \o LastComponent(file_name) \o OutputSuffix)

\* C10: a successful run writes {"response": <result>} to
\* <out_folder>/<basename(input)>.output.json and to no other file; a later
\* run overwrites it, and with the same result leaves the same content.
C10_OneFileOverwritten ==
    /\ \A p \in DOMAIN fs : Collapse(p) = DocumentedPath
    /\ Cardinality(DOMAIN fs) <= 1
    /\ \A i \in 1..Len(written) : Collapse(written[i].path) = DocumentedPath
    /\ (written # <<>> /\ pc \in {"loop", "done"}) =>
          /\ IsDict(response)
          /\ \A p \in DOMAIN fs : fs[p] = [response |-> response]
          /\ (\E p \in DOMAIN before : before[p] = [response |-> response])
                => fs = before

C10_Witness ==
    /\ pc = "done"
    /\ run = 2
    /\ written # <<>>
    /\ before # NoFiles
    /\ fs = before
    /\ file_name = <<"d", "/", "call3", ".json">>
    /\ out_folder = <<"out", "/">>

----------------------------------------------------------------------------
(* The parsers on their own: Init draws a transcript, the actions parse it *)

MaxLines == 2

Ids == { <<"3">>, <<"1", "0">> }

TimeRange == <<"0", ":", "1", " ", "-", " ", "0", ":", "2">>

Texts ==
    { <<"h", "i">>,
      <<"h", "i", " ", "u">>,
      <<"a", ":", "b">>,
      <<"a", ":">>,
      <<"a", ":", " ", "b">>,
      <<"a", " ", ":", " ", "b">> }

\* how one line of a transcript is composed
LineForms ==
    [form : {"plain", "ranged"}, id : Ids, text : Texts]
    \cup { [form |-> "blank", id |-> <<>>, text |-> <<>>],
           [form |-> "blank", id |-> <<>>, text |-> <<" ", "\t">>],
           [form |-> "named", id |-> <<"B", "o", "b">>, text |-> <<"h", "i">>],
           [form |-> "bare",  id |-> <<>>, text |-> <<"n", "o", " ", "s", "e", "p">>] }

\* the characters of a line of the file
Render(d) ==
    CASE d.form = "plain"  -> Chars(SpeakerPrefix \o d.id, d.text)
      [] d.form = "ranged" ->
           Chars(SpeakerPrefix \o d.id, TimeRange \o <<" ", ":", " ">> \o d.text)
      [] d.form = "named"  -> Chars(d.id, d.text)
      [] OTHER             -> d.text \o <<"\n">>

Transcripts == UNION { [1..n -> LineForms] : n \in 0..MaxLines }

JsonDocs ==
    { JsonFile(FALSE, FALSE, <<>>),
      JsonFile(TRUE, FALSE, <<>>),
      JsonFile(TRUE, TRUE, <<>>),
      JsonFile(TRUE, TRUE, <<[speaker_id |-> "0", text |-> "hi"]>>),
      JsonFile(TRUE, TRUE, <<[speaker_id |-> "0", text |-> "hi"],
                             [speaker_id |-> "1", text |-> "yo"]>>),
      JsonFile(TRUE, TRUE, <<[text |-> "hi"]>>) }

InitParse ==
    /\ pc = "parse"
    /\ \/ /\ transcript \in Transcripts
          /\ disk = TxtFile([i \in 1..Len(transcript) |-> Render(transcript[i])])
       \/ /\ transcript = <<>>
          /\ disk \in JsonDocs
    /\ output_segments = <<>>
    /\ raised = None
    /\ file_name = <<>>
    /\ out_folder = <<>>
    /\ model = None
    /\ request_id = None
    /\ completed = FALSE
    /\ response = NoValue
    /\ fs = NoFiles
    /\ before = NoFiles
    /\ written = <<>>
    /\ posts = <<>>
    /\ polls = <<>>
    /\ retval = None
    /\ run = 1
    /\ clock = 0
    /\ APIKEY = <<>>
    /\ argv = <<>>
    /\ opts = <<>>
    /\ input_file_path = None
    /\ output_folder = None
    /\ exit_code = None

\* a call of read_text_to_segments on the file
ParseText ==
    /\ pc = "parse"
    /\ disk.kind = "txt"
    /\ LET r == read_text_to_segments(disk.lines) IN
         /\ output_segments' = r.segments
         /\ raised' = r.raised
         /\ pc' = IF r.raised = None THEN "parsed" ELSE "raised"
    /\ UNCHANGED <<disk, transcript>>
    /\ UNCHANGED driverVars
    /\ UNCHANGED mainVars

\* a call of read_json_to_segments on the file
ParseJson ==
    /\ pc = "parse"
    /\ disk.kind = "json"
    /\ LET r == read_json_to_segments(disk.doc) IN
         /\ output_segments' = r.segments
         /\ raised' = r.raised
         /\ pc' = IF r.raised = None THEN "parsed" ELSE "raised"
    /\ UNCHANGED <<disk, transcript>>
    /\ UNCHANGED driverVars
    /\ UNCHANGED mainVars

NextParse == ParseText \/ ParseJson

SpecParse == InitParse /\ [][NextParse]_vars

----------------------------------------------------------------------------
(* Properties of read_text_to_segments, checked under SpecParse            *)

\* the lines of the transcript that are not blank
Spoken == SelectSeq(transcript, LAMBDA d : d.form # "blank")

WellFormedTranscript ==
    disk.kind = "txt" /\ \A i \in 1..Len(transcript) : transcript[i].form # "bare"

NoSep(u) == \A i \in 1..(Len(u) - 1) : ~(u[i] = ":" /\ u[i + 1] = " ")

\* what follows the last ": " of a text, the whole text when it has none
AfterLastSep(t) ==
    CHOOSE u \in {SubSeq(t, k, Len(t)) : k \in 1..(Len(t) + 1)} :
        /\ NoSep(u)
        /\ \/ Len(u) = Len(t)
           \/ /\ Len(t) - Len(u) >= 2
              /\ t[Len(t) - Len(u) - 1] = ":"
              /\ t[Len(t) - Len(u)] = " "

\* C8 as stated: every line "speaker_<id> : [<timerange> : ]<text>" yields
\* {speakerId: <id>, text: <text>} with the whole text, blank lines yield
\* nothing, and the segments are in file order, one per non-blank line.
C8_WholeTextPreserved ==
    (WellFormedTranscript /\ pc # "parse") =>
        /\ pc = "parsed"
        /\ output_segments =
              [i \in 1..Len(Spoken) |->
                  [speakerId |-> Spoken[i].id, text |-> Spoken[i].text]]

\* C8 as amended: the text of the segment is what follows the last ": " of
\* <text>, which is the whole text when <text> contains no ": ".
C8_TextAfterLastSeparator ==
    (WellFormedTranscript /\ pc # "parse") =>
        /\ pc = "parsed"
        /\ output_segments =
              [i \in 1..Len(Spoken) |->
                  [speakerId |-> Spoken[i].id,
                   text      |-> AfterLastSep(Spoken[i].text)]]

C8_Witness ==
    /\ pc = "parsed"
    /\ Len(transcript) = 2
    /\ transcript[1].form = "ranged"
    /\ transcript[1].text = <<"a", ":", " ", "b">>
    /\ transcript[2].form = "blank"
    /\ output_segments = << [speakerId |-> transcript[1].id, text |-> <<"b">>] >>

----------------------------------------------------------------------------
(* The command-line block (if __name__ == '__main__')                      *)

Placeholder == <<"Y", "O", "U", "R", "_", "A", "P", "I", "_", "K", "E", "Y">>

\* keys the constant APIKEY may have been set to
Keys == { Placeholder, <<>>, <<"K", "E", "Y">>, <<"k", "9">> }

\* an argument word is a sequence of tokens; the words getopt sees as options
DashTokens == {"-i", "-o", "-m", "-h", "-x",
               "--input_file_path", "--output_folder", "--model", "--help"}

\* "i:o:" and ["input_file_path=", "output_folder="], line 190
KnownOptions == {"-i", "-o", "--input_file_path", "--output_folder"}

TxtPath == <<"call1", ".txt">>

JsonPath == <<"d", "/", "call3", ".json">>

CsvPath == <<"notes", ".csv">>

\* os.path.isdir
ExistingDirs == { <<"out">> }

InputParts ==
    { <<>> } \cup
    { <<o, v>> : o \in {<<"-i">>, <<"--input_file_path">>},
                 v \in {TxtPath, JsonPath, CsvPath, <<>>} }

OutputParts ==
    { <<>> } \cup
    { <<o, v>> : o \in {<<"-o">>, <<"--output_folder">>},
                 v \in {<<"out">>, <<"nodir">>} }

ModelParts ==
    { <<>> } \cup
    { <<o, v>> : o \in {<<"-m">>, <<"--model">>},
                 v \in {<<"iamus">>, <<"cassandra">>, <<"bogus">>} }

LeadParts == { <<>>, << <<"-h">> >>, << <<"-x">> >> }

TrailParts == { <<>>, << <<"-o">> >>, << <<"extra">> >> }

Argvs ==
    { l \o i \o o \o m \o t :
        l \in LeadParts, i \in InputParts, o \in OutputParts,
        m \in ModelParts, t \in TrailParts }

\* a variant of the guard that fires on an empty key alone
KeyGuard_emptyOnly(key) == key = <<>>

\* APIKEY in "YOUR_API_KEY", line 182
KeyGuard(key) ==
    \E i \in 0..(Len(Placeholder) - Len(key)) :
        SubSeq(Placeholder, i + 1, i + Len(key)) = key

IsOptionWord(w) == w # <<>> /\ Head(w) \in DashTokens

\* getopt.getopt(args, "i:o:", ["input_file_path=", "output_folder="]);
\* abbreviated long options and arguments attached to the option word are
\* outside the argument words modelled here
RECURSIVE Getopt(_, _)
Getopt(args, acc) ==
    IF args = <<>> \/ ~IsOptionWord(Head(args))
    THEN [error |-> FALSE, opts |-> acc]
    ELSE LET o == Head(Head(args)) IN
         IF o \notin KnownOptions THEN [error |-> TRUE, opts |-> <<>>]
         ELSE IF Len(args) < 2 THEN [error |-> TRUE, opts |-> <<>>]
         ELSE Getopt(SubSeq(args, 3, Len(args)), Append(acc, <<o, args[2]>>))

\* the value the loop of lines 200-206 leaves in a local: that of the last
\* option among names, or None
RECURSIVE LastOf(_, _, _)
LastOf(os, names, cur) ==
    IF os = <<>> THEN cur
    ELSE LastOf(Tail(os), names, IF Head(os)[1] \in names THEN Head(os)[2] ELSE cur)

\* the branch the chain of lines 208-219 takes
Validate(input, output, m) ==
    IF input = None \/ Len(input) <= 0 \/ output = None \/ Len(output) <= 0
    THEN "usage"
    ELSE IF ~(EndsWith(input, ".json") \/ EndsWith(input, ".txt"))
    THEN "invalid input file"
    ELSE IF m \notin {<<"cassandra">>, <<"iamus">>}
    THEN "invalid model"
    ELSE IF output \notin ExistingDirs
    THEN "invalid output folder"
    ELSE "ok"

InitMain ==
    /\ pc = "guard"
    /\ APIKEY \in Keys
    /\ argv \in Argvs
    /\ opts = <<>>
    /\ input_file_path = None
    /\ output_folder = None
    /\ model = None
    /\ exit_code = None
    /\ raised = None
    /\ disk = TxtFile(GoodLines)
    /\ transcript = <<>>
    /\ output_segments = <<>>
    /\ file_name = <<>>
    /\ out_folder = <<>>
    /\ request_id = None
    /\ completed = FALSE
    /\ response = NoValue
    /\ fs = NoFiles
    /\ before = NoFiles
    /\ written = <<>>
    /\ posts = <<>>
    /\ polls = <<>>
    /\ retval = None
    /\ run = 1
    /\ clock = 0

\* lines 182-184
CheckKey ==
    /\ pc = "guard"
    /\ IF KeyGuard(APIKEY)
       THEN pc' = "exited" /\ exit_code' = 0
       ELSE pc' = "getopt" /\ UNCHANGED exit_code
    /\ UNCHANGED <<APIKEY, argv, opts, input_file_path, output_folder>>
    /\ UNCHANGED <<disk, transcript, output_segments, raised>>
    /\ UNCHANGED driverVars

\* lines 186-198
ParseArgs ==
    /\ pc = "getopt"
    /\ LET r == Getopt(argv, <<>>) IN
         IF r.error
         THEN pc' = "exited" /\ exit_code' = 2 /\ UNCHANGED opts
         ELSE pc' = "scan" /\ opts' = r.opts /\ UNCHANGED exit_code
    /\ UNCHANGED <<APIKEY, argv, input_file_path, output_folder>>
    /\ UNCHANGED <<disk, transcript, output_segments, raised>>
    /\ UNCHANGED driverVars

\* lines 200-206
ScanOpts ==
    /\ pc = "scan"
    /\ input_file_path' = LastOf(opts, {"-i", "--input_file_path"}, input_file_path)
    /\ output_folder' = LastOf(opts, {"-o", "--output_folder"}, output_folder)
    /\ model' = LastOf(opts, {"-m", "--model"}, model)
    /\ pc' = "validate"
    /\ UNCHANGED <<APIKEY, argv, opts, exit_code>>
    /\ UNCHANGED <<disk, transcript, output_segments, raised>>
    /\ UNCHANGED <<file_name, out_folder, request_id, completed, response, fs,
                   before, written, posts, polls, retval, run, clock>>

\* lines 208-221; the call of line 221 passes two of the three parameters of
\* process_summary_request, which raises TypeError before its body runs
ValidateArgs ==
    /\ pc = "validate"
    /\ IF Validate(input_file_path, output_folder, model) # "ok"
       THEN pc' = "exited" /\ exit_code' = 2 /\ UNCHANGED raised
       ELSE pc' = "raised" /\ raised' = "TypeError" /\ UNCHANGED exit_code
    /\ UNCHANGED <<APIKEY, argv, opts, input_file_path, output_folder>>
    /\ UNCHANGED <<disk, transcript, output_segments>>
    /\ UNCHANGED driverVars

NextMain == CheckKey \/ ParseArgs \/ ScanOpts \/ ValidateArgs

SpecMain == InitMain /\ [][NextMain]_vars

----------------------------------------------------------------------------
(* Properties of the command-line block, checked under SpecMain            *)

OptionWords(short, long) == { <<short>>, <<long>> }

\* the argument lists the usage text allows: an input path ending in .txt or
\* .json, an existing output folder, and a model that is omitted or one of
\* iamus and cassandra
UsageValidArgvs ==
    { <<i, iv, o, ov>> \o m :
        i  \in OptionWords("-i", "--input_file_path"),
        iv \in {TxtPath, JsonPath},
        o  \in OptionWords("-o", "--output_folder"),
        ov \in ExistingDirs,
        m  \in { <<>> } \cup
               { <<mo, mv>> : mo \in OptionWords("-m", "--model"),
                              mv \in {<<"iamus">>, <<"cassandra">>} } }

\* the key is the placeholder, or a piece of it
LeftAsPlaceholder ==
    \E i \in 1..(Len(Placeholder) + 1), j \in 0..Len(Placeholder) :
        SubSeq(Placeholder, i, j) = APIKEY

Ended == pc \in {"exited", "raised"}

NothingSentOrWritten == posts = <<>> /\ polls = <<>> /\ fs = NoFiles

\* C7: with a key that is not the placeholder and arguments the usage text
\* allows, the driver does not exit with code 2 and goes on to process the
\* file.
C7_ValidArgumentsAreProcessed ==
    (APIKEY # Placeholder /\ argv \in UsageValidArgvs /\ Ended) =>
        /\ exit_code # 2
        /\ raised = None

====
